---- MODULE Spec2Model ----
(***************************************************************************)
(* A model of DeDRM_plugin/adobekey.py: recovery of the Adobe ADEPT user   *)
(* key(s).  adeptkeys() has one body per platform (Windows: registry walk  *)
(* plus CryptUnprotectData plus AES-CBC; Mac OS X: activation.dat), and    *)
(* getkey() saves what adeptkeys() returned.                               *)
(*                                                                         *)
(* Python values are represented as follows.  A str is a sequence of       *)
(* one-character strings, a bytes object a sequence of integers 0..255,    *)
(* and an optional value (None, or a registry value / XML node that may be *)
(* absent) is a sequence of length 0 or 1.                                 *)
(***************************************************************************)
EXTENDS Integers, Sequences, FiniteSets, TLC

\* ------------------------------------------------------------------ bounds

\* Longest contiguous run of groups 0..n-1 under the Activation key.
MaxGroups == 2
\* How many times GetUserName may double its buffer in the model.
MaxDoublings == 2
\* Output-directory counters 1..MaxPreExisting may be taken by older files.
MaxPreExisting == 1
\* Longest buffer tried on unpad on its own.
MaxUnpadLen == 3

\* ---------------------------------------------------------- Python values

None == << >>
Some(x) == << x >>
IsNone(o) == Len(o) = 0
Get(o) == o[1]

Min(a, b) == IF a < b THEN a ELSE b
Max(a, b) == IF a > b THEN a ELSE b

\* s[start:stop] for a sequence, with Python's normalisation of negative and
\* out-of-range indices (a negative index counts from the end; -0 is 0).
PyIndex(n, k) == IF k < 0 THEN Max(n + k, 0) ELSE Min(k, n)
Slice(s, start, stop) ==
    LET a == PyIndex(Len(s), start)
        b == PyIndex(Len(s), stop)
    IN  IF a < b THEN SubSeq(s, a + 1, b) ELSE << >>
\* s[start:]
SliceFrom(s, start) == Slice(s, start, Len(s))
\* s[:stop]
SliceTo(s, stop) == Slice(s, 0, stop)

\* ----------------------------------------------------------------- unpad

\* data[-1] of an empty buffer is an IndexError.
UnpadRaises(data) == Len(data) = 0
\* unpad(data): pad_len = data[-1]; return data[:-pad_len]
unpad(data) == SliceTo(data, 0 - data[Len(data)])

\* ------------------------------------------------------- entropy packing

\* name.encode('utf-16-le') for names of the Basic Multilingual Plane: two
\* bytes per code unit, low byte first.
Utf16le(name) ==
    [k \in 1..(2 * Len(name)) |->
        IF k % 2 = 1 THEN name[(k + 1) \div 2] % 256
                     ELSE (name[k \div 2] \div 256) % 256]
\* b[::2]
Stride2(b) == [k \in 1..((Len(b) + 1) \div 2) |-> b[2 * k - 1]]
\* .encode('utf-16-le')[::2]
NarrowName(name) == Stride2(Utf16le(name))

\* struct.pack('>I', n)
PackBE32(n) ==
    << (n \div 16777216) % 256, (n \div 65536) % 256, (n \div 256) % 256, n % 256 >>
\* struct.pack('<w>s', b): truncated, or padded with null bytes, to w bytes
PackS(w, b) == [k \in 1..w |-> IF k <= Len(b) THEN b[k] ELSE 0]
\* struct.pack('>I12s3s13s', serial, vendor, signature, user)
PackEntropy(serial, vendor, signature, userBytes) ==
    PackBE32(serial) \o PackS(12, vendor) \o PackS(3, signature) \o PackS(13, userBytes)

\* The host the run is on: volume serial, cpuid0 vendor string, cpuid1 value.
HostSerial == 305441741
HostVendor == << 71, 101, 110, 117, 105, 110, 101, 73, 110, 116, 101, 108 >>
HostCpuid1 == 198313
\* signature = struct.pack('>I', cpuid1())[1:]
HostSignature == SliceFrom(PackBE32(HostCpuid1), 1)

\* Account names: the registry's 'username' value and the OS user name.
RegName == << 97, 108 >>
ShortOsName == << 98, 322, 98 >>
LongOsName == [k \in 1..33 |-> 97 + (k % 5)]
RegUsers == { None, Some(RegName) }
\* What GetUserNameW can report: a name, or nothing (the call keeps failing).
OsUsers == { None, Some(ShortOsName), Some(LongOsName) }

\* ------------------------------------------- CryptUnprotectData and AES

\* The intermediate key CryptUnprotectData yields for the device blob.
SampleKeykey == [k \in 1..16 |-> 16 + k]
\* A device blob as DPAPI sees it: the entropy it was protected with and the
\* key inside it; a corrupted blob opens with no entropy.
BlobFor(name) ==
    [ intact |-> TRUE,
      entropy |-> PackEntropy(HostSerial, HostVendor, HostSignature, NarrowName(name)),
      key |-> SampleKeykey ]
CorruptBlob == [ intact |-> FALSE, entropy |-> << >>, key |-> << >> ]
DeviceBlobs == { BlobFor(RegName), BlobFor(ShortOsName), BlobFor(LongOsName), CorruptBlob }
\* _CryptUnprotectData(indata, None, entropy, ...) returns nonzero
UnprotectSucceeds(blob, ent) == blob.intact /\ blob.entropy = ent

\* Plaintexts: n bytes of non-uniform content ending in the byte last.
Plain(n, seed, last) == [k \in 1..n |-> IF k = n THEN last ELSE (seed + 7 * k) % 251]

\* AES.new(key, AES.MODE_CBC, iv).decrypt(ct) and its inverse.  The cipher is
\* a byte-wise keyed permutation here: what the walk needs of AES is that it
\* is a length-preserving bijection on strings of whole 16-byte blocks.
BlockSize == 16
AESDecrypt(key, ct) == [k \in 1..Len(ct) |-> (ct[k] + 256 - key[((k - 1) % BlockSize) + 1]) % 256]
AESEncrypt(key, pt) == [k \in 1..Len(pt) |-> (pt[k] + key[((k - 1) % BlockSize) + 1]) % 256]
AESRaises(key, ct) == Len(ct) % BlockSize # 0

\* Stored base64 text (str): privateLicenseKey values of the registry and of
\* activation.dat.
CtKey1 == << "c", "t", "1" >>
CtKey2 == << "c", "t", "2" >>
CtShort == << "c", "t", "S" >>
CtPad0 == << "c", "t", "0" >>
CtBad == << "c", "t", "!" >>
MacKey == << "m", "k" >>
MacShort == << "m", "s" >>
\* b64decode(text): a table from the stored texts to the bytes they encode;
\* text that is no base64 raises.
B64Raises(text) == text \notin { CtKey1, CtKey2, CtShort, CtPad0, MacKey, MacShort }
b64decode(text) ==
    CASE text = CtKey1 -> AESEncrypt(SampleKeykey, Plain(32, 1, 2))
      [] text = CtKey2 -> AESEncrypt(SampleKeykey, Plain(32, 3, 1))
      [] text = CtShort -> AESEncrypt(SampleKeykey, Plain(16, 5, 1))
      [] text = CtPad0 -> AESEncrypt(SampleKeykey, Plain(32, 9, 0))
      [] text = MacKey -> Plain(30, 4, 77)
      [] text = MacShort -> Plain(20, 6, 78)
      [] OTHER -> << >>
\* Line 337 raises: in b64decode, in decrypt, or in unpad.
DecryptRaises(keykey, value) ==
    \/ B64Raises(value)
    \/ AESRaises(keykey, b64decode(value))
    \/ UnpadRaises(AESDecrypt(keykey, b64decode(value)))

\* Length of the envelope header stripped from the unpadded plaintext.
HeaderLen == 26
\* unpad(...)[26:]
StripHeader(buf) == SliceFrom(buf, HeaderLen)
\* Line 337: unpad(AES.new(keykey, ...).decrypt(b64decode(userkey)))[26:]
DecryptUserkey(keykey, value) == StripHeader(unpad(AESDecrypt(keykey, b64decode(value))))

\* ------------------------------------------------- the Activation subtree

\* Registry str values.
UuidA == << "u", "r", "n", ":", "u", "u", "i", "d", ":", "a", "1" >>
MethodA == << "A", "d" >>
MailA == << "x", "@", "y" >>
MailB == << "z" >>

\* A numbered leaf key: its default value (ktype) and its 'value' and
\* 'method' values, each of which may be absent.
Leaf(t, v, m) == [ present |-> TRUE, ktype |-> t, value |-> v, method |-> m ]
NoLeaf == [ present |-> FALSE, ktype |-> "", value |-> None, method |-> None ]
UserLeaf == Leaf("user", Some(UuidA), None)
UserLeafNoValue == Leaf("user", None, None)
PlkLeaf(ct) == Leaf("privateLicenseKey", Some(ct), None)
OtherLeaf == Leaf("other", None, None)

\* A numbered group key: its default value (ktype) and its leaves 0000, 0001, ...
Group(t, ls) == [ present |-> TRUE, ktype |-> t, leaves |-> ls ]
NoGroup == [ present |-> FALSE, ktype |-> "", leaves |-> << >> ]

GroupSamples ==
    { Group("other", << PlkLeaf(CtKey1) >>),
      Group("credentials", << UserLeaf, Leaf("username", Some(MailA), Some(MethodA)), PlkLeaf(CtKey1) >>),
      Group("credentials", << Leaf("username", Some(MailB), None) >>),
      Group("credentials", << PlkLeaf(CtKey1), Leaf("username", None, Some(MethodA)), PlkLeaf(CtKey2) >>),
      Group("credentials", << PlkLeaf(CtShort), UserLeaf, PlkLeaf(CtPad0) >>),
      Group("credentials", << UserLeafNoValue >>),
      Group("credentials", << OtherLeaf, PlkLeaf(CtBad) >>),
      Group("credentials", << Leaf("username", None, None), PlkLeaf(CtKey2), NoLeaf, PlkLeaf(CtKey1) >>),
      Group("credentials", [k \in 1..17 |-> IF k = 17 THEN PlkLeaf(CtKey1) ELSE OtherLeaf]) }
\* Groups that may sit behind the first missing index.
BehindGap == { Group("credentials", << PlkLeaf(CtKey2) >>) }

RECURSIVE SeqsUpTo(_, _)
SeqsUpTo(S, n) ==
    IF n = 0 THEN { << >> }
    ELSE LET shorter == SeqsUpTo(S, n - 1)
         IN  shorter \cup { Append(q, x) : q \in { r \in shorter : Len(r) = n - 1 }, x \in S }

\* The trees winreg.OpenKey(cuser, PRIVATE_LICENCE_KEY_PATH) can give: groups
\* 0000.. in a row, then nothing, or a missing index with a group behind it.
Stores ==
    { run \o tail : run \in SeqsUpTo(GroupSamples, MaxGroups),
                    tail \in { << >> } \cup { << NoGroup, g >> : g \in BehindGap } }

\* winreg.OpenKey(parent, "%04d" % (k,)): the k-th child, if there is one.
OpenGroup(tree, k) == IF k + 1 <= Len(tree) THEN tree[k + 1] ELSE NoGroup
OpenLeaf(group, k) == IF k + 1 <= Len(group.leaves) THEN group.leaves[k + 1] ELSE NoLeaf

\* ------------------------------------------------------ activation.dat

\* A parsed activation.dat: the text of credentials/user and of
\* credentials/privateLicenseKey (None when there is no such node), and the
\* credentials/username node, if any, with its method attribute and its text.
Doc(u, has, m, t, k) ==
    [ present |-> TRUE, user |-> u, hasUsername |-> has, method |-> m, text |-> t, plk |-> k ]
NoDoc == [ present |-> FALSE, user |-> None, hasUsername |-> FALSE, method |-> None,
           text |-> << >>, plk |-> None ]
Docs ==
    { Doc(u, un[1], un[2], un[3], k) :
        u \in { None, Some(UuidA) },
        un \in { << FALSE, None, << >> >>,
                 << TRUE, None, MailA >>,
                 << TRUE, Some(MethodA), MailA >>,
                 << TRUE, Some(MethodA), << >> >> },
        k \in { None, Some(MacKey), Some(MacShort) } }

\* ------------------------------------------------------------------ state

VARIABLES
    platform,    \* "win" (iswindows), "osx" (isosx) or "other"
    osUser,      \* what the OS reports as the current user's name, if anything
                 \* (settled when GetUserName is first needed)
    pc,          \* where the run is
    buflen,      \* GetUserName: len(buffer)
    user,        \* adeptkeys: user (None until read)
    entropy,     \* adeptkeys: entropy
    device,      \* adeptkeys: device (the protected blob)
    keykey,      \* adeptkeys: keykey
    plkroot,     \* adeptkeys: the tree under plkroot
    i,           \* adeptkeys: outer index
    j,           \* adeptkeys: inner index
    uuid_name,   \* adeptkeys: name accumulator of the current group
    keys,        \* adeptkeys: keys
    names,       \* adeptkeys: names
    result,      \* how adeptkeys ended: its return or the exception it raised
    opened,      \* history: the outer indices handed to OpenKey, in order
    leafOpens,   \* history: leaves opened in the current group
    keyOrigin,   \* history: for each element of keys, the group and leaf it came from
    nameOrigin,  \* history: for each element of names, the group it came from
    doc,         \* Mac: the parsed activation.dat
    outIsDir,    \* getkey: os.path.isdir(outpath)
    files,       \* the paths that exist under outpath
    keycount,    \* getkey: keycount
    name_index,  \* getkey: name_index
    key_index,   \* getkey: how many keys the for loop has taken
    written,     \* history: the (path, key) pairs written, in order
    saved,       \* what getkey returned or raised
    stages,      \* history: the stages of adeptkeys started so far, in order
    data,        \* unpad on its own: the argument
    unpadded     \* unpad on its own: the value returned, or the exception

entropyVars == << buflen, user, entropy >>
walkVars == << device, keykey, plkroot, i, j, uuid_name, keys, names,
               opened, leafOpens, keyOrigin, nameOrigin >>
getkeyVars == << outIsDir, files, keycount, name_index, key_index, written, saved >>
unpadVars == << data, unpadded >>
vars == << platform, osUser, pc, entropyVars, walkVars, result, doc, getkeyVars,
          stages, unpadVars >>

\* An exception, by its class and message; Running until adeptkeys ends.
Raised(kind, msg) == [ kind |-> kind, msg |-> msg ]
Running == Raised("running", "")
Returned == Raised("returned", "")
MsgNotActivated == "Adobe Digital Editions not activated"
MsgUnwrap == "Failed to decrypt user key key (sic)"
MsgNoRoot == "Could not locate ADE activation"
MsgNoKey == "Could not locate privateLicenseKey"
MsgNoFile == "Could not find ADE activation.dat file."
MsgPlatform == "This script only supports Windows and Mac OS X."

\* create_unicode_buffer(32)
InitialBuffer == 32
\* range(0, 16)
InnerCap == 16

Init ==
    /\ platform \in { "win", "osx", "other" }
    /\ osUser = None
    /\ pc = "adeptkeys"
    /\ buflen = 0
    /\ user = None
    /\ entropy = << >>
    /\ device = CorruptBlob
    /\ keykey = << >>
    /\ plkroot = << >>
    /\ i = -1
    /\ j = 0
    /\ uuid_name = << >>
    /\ keys = << >>
    /\ names = << >>
    /\ result = Running
    /\ opened = << >>
    /\ leafOpens = 0
    /\ keyOrigin = << >>
    /\ nameOrigin = << >>
    /\ doc = NoDoc
    /\ outIsDir = FALSE
    /\ files = { }
    /\ keycount = 0
    /\ name_index = 0
    /\ key_index = 0
    /\ written = << >>
    /\ saved = Running
    /\ stages = << >>
    /\ data = << >>
    /\ unpadded = Running

\* Raise with the exception swallowed: what was collected so far is returned.
RaiseSwallowed(kind, msg) ==
    /\ result' = Returned
    /\ pc' = "getkey"

\* raise: adeptkeys ends with the exception, whatever it had collected.
Raise(kind, msg) ==
    /\ result' = Raised(kind, msg)
    /\ pc' = "raised"

\* ------------------------------------------------- Windows: the entropy

\* user = GetUserName2(): the registry's 'username' value, narrowed, or None
\* when it cannot be read.
GetUserName2 ==
    /\ platform = "win" /\ pc = "adeptkeys"
    /\ \E reg \in RegUsers :
        IF IsNone(reg)
        THEN /\ user' = None
             /\ osUser' \in OsUsers
             /\ buflen' = InitialBuffer
             /\ pc' = "GetUserName"
        ELSE /\ user' = Some(NarrowName(Get(reg)))
             /\ UNCHANGED << osUser, buflen >>
             /\ pc' = "pack"
    /\ UNCHANGED << platform, entropy, walkVars, result, doc, getkeyVars, stages, unpadVars >>

\* GetUserNameW(buffer, byref(size)) returns nonzero: there is a name and it
\* fits the buffer with its terminator.
GetUserNameWSucceeds(os, size) == ~IsNone(os) /\ Len(Get(os)) + 1 <= size

\* One turn of GetUserName's loop: the call, then either the return or a
\* buffer twice as long.
GetUserName ==
    /\ pc = "GetUserName"
    /\ IF GetUserNameWSucceeds(osUser, buflen)
       THEN /\ user' = Some(NarrowName(Get(osUser)))
            /\ buflen' = buflen
            /\ pc' = "pack"
       ELSE /\ buflen < InitialBuffer * (2 ^ MaxDoublings)
            /\ buflen' = buflen * 2
            /\ user' = user
            /\ pc' = pc
    /\ UNCHANGED << platform, osUser, entropy, walkVars, result, doc, getkeyVars, stages, unpadVars >>

\* entropy = struct.pack('>I12s3s13s', serial, vendor, signature, user)
PackStep ==
    /\ pc = "pack"
    /\ entropy' = PackEntropy(HostSerial, HostVendor, HostSignature, Get(user))
    /\ pc' = "device"
    /\ UNCHANGED << platform, osUser, buflen, user, walkVars, result, doc, getkeyVars, stages, unpadVars >>

\* ---------------------------------------- Windows: device key and unwrap

\* device = winreg.QueryValueEx(winreg.OpenKey(cuser, DEVICE_KEY_PATH), 'key')[0]
ReadDeviceKey ==
    /\ pc = "device"
    /\ \E blob \in { None } \cup { Some(b) : b \in DeviceBlobs } :
        IF IsNone(blob)
        THEN /\ Raise("ADEPTError", MsgNotActivated)
             /\ device' = device
        ELSE /\ device' = Get(blob)
             /\ pc' = "unwrap"
             /\ result' = result
    /\ UNCHANGED << platform, osUser, entropyVars, keykey, plkroot, i, j, uuid_name,
                    keys, names, opened, leafOpens, keyOrigin, nameOrigin, doc, getkeyVars, unpadVars >>
    /\ stages' = Append(stages, "device")

\* keykey = CryptUnprotectData(device, entropy)
CryptUnprotectData ==
    /\ pc = "unwrap"
    /\ IF UnprotectSucceeds(device, entropy)
       THEN /\ keykey' = device.key
            /\ pc' = "root"
            /\ result' = result
       ELSE /\ Raise("ADEPTError", MsgUnwrap)
            /\ keykey' = keykey
    /\ UNCHANGED << platform, osUser, entropyVars, device, plkroot, i, j, uuid_name,
                    keys, names, opened, leafOpens, keyOrigin, nameOrigin, doc, getkeyVars, unpadVars >>
    /\ stages' = Append(stages, "unwrap")

\* plkroot = winreg.OpenKey(cuser, PRIVATE_LICENCE_KEY_PATH); i = -1
OpenPlkRoot ==
    /\ pc = "root"
    /\ \E tree \in { None } \cup { Some(t) : t \in Stores } :
        IF IsNone(tree)
        THEN /\ Raise("ADEPTError", MsgNoRoot)
             /\ plkroot' = plkroot
        ELSE /\ plkroot' = Get(tree)
             /\ pc' = "outer"
             /\ result' = result
    /\ UNCHANGED << platform, osUser, entropyVars, device, keykey, i, j, uuid_name,
                    keys, names, opened, leafOpens, keyOrigin, nameOrigin, doc, getkeyVars, unpadVars >>
    /\ stages' = Append(stages, "root")

\* ------------------------------------------------------ Windows: the walk

Separator == << "_" >>
Unknown == << "U", "n", "k", "n", "o", "w", "n" >>

\* Lines 322-334: the accumulator after a leaf of type user or username.
NameAfterLeaf(acc, leaf) ==
    IF leaf.ktype = "user"
    THEN acc \o SliceFrom(Get(leaf.value), 9) \o Separator
    ELSE IF leaf.ktype = "username"
    THEN LET withMethod == IF IsNone(leaf.method) THEN acc
                           ELSE acc \o Get(leaf.method) \o Separator
         IN  IF IsNone(leaf.value) THEN withMethod
             ELSE withMethod \o Get(leaf.value) \o Separator
    ELSE acc

\* Lines 341-344: the name a group is given when its inner scan is over.
\* The finalize that forgets to drop the separator.
FinalNameKeepsSeparator(acc) == IF acc = << >> THEN Unknown ELSE acc
FinalName(acc) == IF acc = << >> THEN Unknown ELSE SliceTo(acc, -1)

\* OuterOutcome with 'break' in place of 'continue' at line 314.
OuterOutcomeStopsAtOther(plkparent) ==
    IF ~plkparent.present \/ plkparent.ktype # "credentials" THEN "break" ELSE "scan"

\* Lines 306-314: what the while loop does with the key it tried to open:
\* no such key ends the loop, a group of another type is passed over.
OuterOutcome(plkparent) ==
    IF ~plkparent.present THEN "break"
    ELSE IF plkparent.ktype # "credentials" THEN "continue"
    ELSE "scan"

\* One turn of the while loop up to the inner scan: the next index is opened.
OuterStep ==
    /\ pc = "outer"
    /\ i' = i + 1
    /\ opened' = Append(opened, i + 1)
    /\ stages' = IF i = -1 THEN Append(stages, "walk") ELSE stages
    /\ LET outcome == OuterOutcome(OpenGroup(plkroot, i + 1))
       IN  IF outcome = "scan"
           THEN /\ pc' = "inner"
                /\ uuid_name' = << >>
                /\ j' = 0
                /\ leafOpens' = 0
           ELSE /\ pc' = IF outcome = "break" THEN "end" ELSE "outer"
                /\ UNCHANGED << j, uuid_name, leafOpens >>
    /\ UNCHANGED << platform, osUser, entropyVars, device, keykey, plkroot, keys, names,
                    keyOrigin, nameOrigin, result, doc, getkeyVars, unpadVars >>

\* A leaf the handling of which raises: a user or privateLicenseKey leaf
\* without a 'value' (lines 324, 336), or a key text line 337 cannot take.
LeafRaises(kk, leaf) ==
    \/ leaf.ktype \in { "user", "privateLicenseKey" } /\ IsNone(leaf.value)
    \/ leaf.ktype = "privateLicenseKey" /\ ~IsNone(leaf.value)
          /\ DecryptRaises(kk, Get(leaf.value))
\* The exception it raises.
LeafError(kk, leaf) ==
    IF IsNone(leaf.value) THEN Raised("WindowsError", "value")
    ELSE IF UnpadRaises(AESDecrypt(kk, b64decode(Get(leaf.value)))) /\ ~B64Raises(Get(leaf.value))
    THEN Raised("IndexError", "unpad")
    ELSE Raised("ValueError", "decrypt")

\* The inner scan goes on: j is in range(0, 16) and leaf j opens.
\* The inner scan without the cap of range(0, 16).
InnerContinuesNoCap == OpenLeaf(OpenGroup(plkroot, i), j).present
InnerContinues == j < InnerCap /\ OpenLeaf(OpenGroup(plkroot, i), j).present

\* One turn of the for loop: leaf j is opened and handled by its type.
InnerStep ==
    /\ pc = "inner"
    /\ InnerContinues
    /\ LET plkkey == OpenLeaf(OpenGroup(plkroot, i), j)
       IN  /\ leafOpens' = leafOpens + 1
           /\ IF LeafRaises(keykey, plkkey)
              THEN /\ Raise(LeafError(keykey, plkkey).kind, LeafError(keykey, plkkey).msg)
                   /\ UNCHANGED << j, uuid_name, keys, keyOrigin >>
              ELSE /\ uuid_name' = NameAfterLeaf(uuid_name, plkkey)
                   /\ IF plkkey.ktype = "privateLicenseKey"
                      THEN /\ keys' = Append(keys, DecryptUserkey(keykey, Get(plkkey.value)))
                           /\ keyOrigin' = Append(keyOrigin, [ group |-> i, leaf |-> j ])
                      ELSE UNCHANGED << keys, keyOrigin >>
                   /\ j' = j + 1
                   /\ UNCHANGED << pc, result >>
    /\ UNCHANGED << platform, osUser, entropyVars, device, keykey, plkroot, i, names,
                    opened, nameOrigin, doc, getkeyVars, stages, unpadVars >>

\* The for loop is over (no leaf j, or j reached 16): the group's name is
\* appended and the while loop goes on.
GroupFinalize ==
    /\ pc = "inner"
    /\ ~InnerContinues
    /\ names' = Append(names, FinalName(uuid_name))
    /\ nameOrigin' = Append(nameOrigin, i)
    /\ pc' = "outer"
    /\ UNCHANGED << platform, osUser, entropyVars, device, keykey, plkroot, i, j, uuid_name,
                    keys, opened, leafOpens, keyOrigin, result, doc, getkeyVars, stages, unpadVars >>

\* Lines 346-349: no key at all is an error, otherwise keys and names return.
\* NoKeyFound with the check of line 346 left out.
NoKeyFoundNever(found) == FALSE

\* Line 346: len(keys) == 0
NoKeyFound(found) == Len(found) = 0

WalkEnd ==
    /\ pc = "end"
    /\ IF NoKeyFound(keys)
       THEN Raise("ADEPTError", MsgNoKey)
       ELSE /\ result' = Returned
            /\ pc' = "getkey"
    /\ UNCHANGED << platform, osUser, entropyVars, walkVars, doc, getkeyVars, stages, unpadVars >>

\* ------------------------------------------------------------ Mac OS X

\* Lines 392-409: the name built from the document's nodes.  Each try block
\* is left at its first failing lookup: findtext of a missing user node gives
\* None, find of a missing username node gives None, and a username node
\* without a method attribute has no attrib["method"].
MacKeyName(d) ==
    LET afterUser == IF IsNone(d.user) THEN << >>
                     ELSE SliceFrom(Get(d.user), 9) \o Separator
        afterMail == IF ~d.hasUsername \/ IsNone(d.method) THEN afterUser
                     ELSE afterUser \o Get(d.method) \o Separator \o d.text \o Separator
    IN  FinalName(afterMail)

\* actpath = findActivationDat(); tree = etree.parse(actpath)
FindActivationDat ==
    /\ platform = "osx" /\ pc = "adeptkeys"
    /\ \E found \in { None } \cup { Some(d) : d \in Docs } :
        IF IsNone(found)
        THEN /\ Raise("ADEPTError", MsgNoFile)
             /\ doc' = doc
        ELSE /\ doc' = Get(found)
             /\ pc' = "extract"
             /\ result' = result
    /\ UNCHANGED << platform, osUser, entropyVars, walkVars, getkeyVars, stages, unpadVars >>

\* Lines 389-415: the key text is looked up, the name is built, the text is
\* decoded and its header stripped.
MacExtract ==
    /\ pc = "extract"
    /\ IF IsNone(doc.plk)
       THEN /\ Raise("TypeError", "b64decode")
            /\ UNCHANGED << keys, names >>
       ELSE IF B64Raises(Get(doc.plk))
       THEN /\ Raise("ValueError", "b64decode")
            /\ UNCHANGED << keys, names >>
       ELSE /\ keys' = << StripHeader(b64decode(Get(doc.plk))) >>
            /\ names' = << MacKeyName(doc) >>
            /\ result' = Returned
            /\ pc' = "getkey"
    /\ UNCHANGED << platform, osUser, entropyVars, device, keykey, plkroot, i, j, uuid_name,
                    opened, leafOpens, keyOrigin, nameOrigin, doc, getkeyVars, stages, unpadVars >>

\* Neither platform: adeptkeys raises at once.
UnsupportedPlatform ==
    /\ platform = "other" /\ pc = "adeptkeys"
    /\ Raise("ADEPTError", MsgPlatform)
    /\ UNCHANGED << platform, osUser, entropyVars, walkVars, doc, getkeyVars, stages, unpadVars >>

\* ----------------------------------------------------------------- getkey

\* A path: outpath itself (count 0), or
\* os.path.join(outpath, "adobekey{count}_uuid_{name}.der").
OutPath == [ count |-> 0, name |-> << >> ]
KeyFile(count, name) == [ count |-> count, name |-> name ]
Range(q) == { q[k] : k \in 1..Len(q) }

\* Lines 424-433: adeptkeys has returned; outpath is a file path, which gets
\* keys[0], or a directory, which may hold files of earlier runs.
GetkeyStart ==
    /\ pc = "getkey"
    /\ \E isdir \in BOOLEAN, taken \in SUBSET (1..MaxPreExisting) :
        /\ outIsDir' = isdir
        /\ IF Len(keys) = 0
           THEN /\ saved' = Raised("False", "")
                /\ pc' = "done"
                /\ UNCHANGED << files, written >>
           ELSE IF ~isdir
           THEN /\ taken = { }
                /\ files' = { OutPath }
                /\ written' = << [ path |-> OutPath, key |-> keys[1] ] >>
                /\ saved' = Raised("True", "")
                /\ pc' = "done"
           ELSE /\ files' = { KeyFile(c, n) : c \in taken, n \in Range(names) }
                /\ pc' = "probe"
                /\ UNCHANGED << written, saved >>
    /\ keycount' = 0
    /\ name_index' = 0
    /\ key_index' = 0
    /\ UNCHANGED << platform, osUser, entropyVars, walkVars, result, doc, stages, unpadVars >>

\* One turn of the while loop of lines 435-439: the next counter is tried
\* with the name at name_index.
GetkeyProbe ==
    /\ pc = "probe"
    /\ keycount' = keycount + 1
    /\ IF name_index + 1 > Len(names)
       THEN /\ saved' = Raised("IndexError", "names")
            /\ pc' = "done"
       ELSE /\ saved' = saved
            /\ pc' = IF KeyFile(keycount + 1, names[name_index + 1]) \in files
                     THEN "probe" ELSE "write"
    /\ UNCHANGED << platform, osUser, entropyVars, walkVars, result, doc,
                    outIsDir, files, name_index, key_index, written, stages, unpadVars >>

\* Lines 440-444: the key is written to the path found, and the for loop
\* takes the next key or getkey returns True.
GetkeyWrite ==
    /\ pc = "write"
    /\ LET outfile == KeyFile(keycount, names[name_index + 1])
       IN  /\ files' = files \cup { outfile }
           /\ written' = Append(written, [ path |-> outfile, key |-> keys[key_index + 1] ])
    /\ name_index' = name_index + 1
    /\ key_index' = key_index + 1
    /\ IF key_index + 1 = Len(keys)
       THEN /\ saved' = Raised("True", "")
            /\ pc' = "done"
       ELSE /\ saved' = saved
            /\ pc' = "probe"
    /\ UNCHANGED << platform, osUser, entropyVars, walkVars, result, doc, outIsDir, keycount, stages, unpadVars >>

Next ==
    \/ GetUserName2
    \/ GetUserName
    \/ PackStep
    \/ ReadDeviceKey
    \/ CryptUnprotectData
    \/ OpenPlkRoot
    \/ OuterStep
    \/ InnerStep
    \/ GroupFinalize
    \/ WalkEnd
    \/ FindActivationDat
    \/ MacExtract
    \/ UnsupportedPlatform
    \/ GetkeyStart
    \/ GetkeyProbe
    \/ GetkeyWrite

Spec == Init /\ [][Next]_vars

\* ------------------------------------------------------- unpad on its own

\* The byte values tried: small counts, one past the longest buffer, and 255.
UnpadBytes == (0..(MaxUnpadLen + 1)) \cup { 255 }
UnpadInputs == SeqsUpTo(UnpadBytes, MaxUnpadLen)

InitUnpad ==
    /\ platform = "win"
    /\ osUser = None
    /\ pc = "unpad"
    /\ buflen = 0
    /\ user = None
    /\ entropy = << >>
    /\ device = CorruptBlob
    /\ keykey = << >>
    /\ plkroot = << >>
    /\ i = -1
    /\ j = 0
    /\ uuid_name = << >>
    /\ keys = << >>
    /\ names = << >>
    /\ result = Running
    /\ opened = << >>
    /\ leafOpens = 0
    /\ keyOrigin = << >>
    /\ nameOrigin = << >>
    /\ doc = NoDoc
    /\ outIsDir = FALSE
    /\ files = { }
    /\ keycount = 0
    /\ name_index = 0
    /\ key_index = 0
    /\ written = << >>
    /\ saved = Running
    /\ stages = << >>
    /\ data \in UnpadInputs
    /\ unpadded = Running

\* A call unpad(data).
UnpadCall ==
    /\ pc = "unpad"
    /\ unpadded' = IF UnpadRaises(data) THEN Raised("IndexError", "data")
                   ELSE [ kind |-> "returned", msg |-> "", value |-> unpad(data) ]
    /\ pc' = "unpadded"
    /\ UNCHANGED << platform, osUser, entropyVars, walkVars, result, doc, getkeyVars,
                    stages, data >>

SpecUnpad == InitUnpad /\ [][UnpadCall]_vars


\* ================================================================ claims

\* The first index under the root that does not open.
FirstMissing(tree) ==
    CHOOSE k \in 0..Len(tree) :
        /\ ~OpenGroup(tree, k).present
        /\ \A m \in 0..(k - 1) : OpenGroup(tree, m).present

\* The stores of the shape {0: not credentials, 1: credentials with one valid
\* privateLicenseKey, 2: missing, 3: present}.
OneKeyGroups ==
    { g \in GroupSamples :
        /\ g.ktype = "credentials"
        /\ Len(g.leaves) <= InnerCap
        /\ \A k \in 1..Len(g.leaves) :
              g.leaves[k].present /\ ~LeafRaises(SampleKeykey, g.leaves[k])
        /\ Cardinality({ k \in 1..Len(g.leaves) : g.leaves[k].ktype = "privateLicenseKey" }) = 1 }
GapStores ==
    { << g0, g1, NoGroup, g3 >> :
        g0 \in { g \in GroupSamples : g.ktype # "credentials" },
        g1 \in OneKeyGroups,
        g3 \in BehindGap }

\* C1: on Windows the outer scan opens the indices 0, 1, 2, ... in order and
\* every index it went past was present; when the loop is left, the index it
\* stopped at is the first missing one, whatever the types of the groups
\* before it; every key comes from a credentials group below the first
\* missing index; and on a store {0: not credentials, 1: credentials with one
\* valid key, 2: missing, 3: present} exactly one key is returned after the
\* indices 0, 1, 2 were opened.
C1_OuterScanStopsAtFirstGap ==
    platform = "win" =>
        /\ \A k \in 1..Len(opened) : opened[k] = k - 1
        /\ \A k \in 1..(Len(opened) - 1) : OpenGroup(plkroot, opened[k]).present
        /\ \A k \in 1..Len(keyOrigin) :
              /\ keyOrigin[k].group < FirstMissing(plkroot)
              /\ OpenGroup(plkroot, keyOrigin[k].group).ktype = "credentials"
        /\ pc = "end" => opened[Len(opened)] = FirstMissing(plkroot)
        /\ (plkroot \in GapStores /\ result = Returned) =>
              (Len(keys) = 1 /\ opened = << 0, 1, 2 >>)

\* C1 witness: a run over such a store has returned its one key.
C1_Witness ==
    /\ platform = "win"
    /\ plkroot \in GapStores
    /\ result = Returned
    /\ Len(keys) = 1
    /\ opened = << 0, 1, 2 >>

\* A credentials group the inner scan of which meets such a leaf.
GroupRaises(kk, group) ==
    /\ group.present
    /\ group.ktype = "credentials"
    /\ \E k \in 0..(InnerCap - 1) :
          /\ \A m \in 0..k : OpenLeaf(group, m).present
          /\ LeafRaises(kk, OpenLeaf(group, k))

StageOrder == << "device", "unwrap", "root", "walk" >>

\* C2 (as claimed): when the Windows adeptkeys returns, keys and names have
\* the same length and the k-th name was derived from the group that held
\* the k-th key.
CE_C2_KeysAndNamesPairUp ==
    (platform = "win" /\ result = Returned) =>
        /\ Len(keys) = Len(names)
        /\ \A k \in 1..Len(keys) : nameOrigin[k] = keyOrigin[k].group

\* C3: the stages start in the order device-key read, unwrap, root open,
\* walk; a run that raised has handed nothing to its caller and takes no
\* further step; the not-activated, unwrap and no-root errors come with no
\* later stage started; a failed unwrap is never passed; and the Windows
\* adeptkeys returns only after all four stages, none of the groups it
\* opened holding a leaf that raises.
C3_FirstFailureEndsTheRun ==
    /\ stages = SubSeq(StageOrder, 1, Len(stages))
    /\ pc = "raised" =>
          /\ result.kind \notin { "running", "returned" }
          /\ saved = Running /\ written = << >> /\ files = { }
          /\ ~ENABLED Next
    /\ result.msg = MsgNotActivated => stages = << "device" >>
    /\ result.msg = MsgUnwrap => stages = << "device", "unwrap" >>
    /\ result.msg = MsgNoRoot => stages = << "device", "unwrap", "root" >>
    /\ (Len(stages) >= 2 /\ pc # "unwrap" /\ ~UnprotectSucceeds(device, entropy)) =>
          result = Raised("ADEPTError", MsgUnwrap)
    /\ (platform = "win" /\ result = Returned) =>
          /\ stages = StageOrder
          /\ \A k \in 1..Len(opened) : ~GroupRaises(keykey, OpenGroup(plkroot, opened[k]))

\* C3 witness: a later group failed after an earlier group had given a key.
C3_Witness ==
    /\ pc = "raised"
    /\ result.kind \in { "WindowsError", "ValueError", "IndexError" }
    /\ Len(keys) >= 1
    /\ i >= 1

\* The unpadded plaintext a key of the walk came from.
UnpaddedOf(origin) ==
    unpad(AESDecrypt(keykey, b64decode(Get(OpenLeaf(OpenGroup(plkroot, origin.group), origin.leaf).value))))

\* C4 (as claimed): no key is accepted from an unpadded buffer shorter than
\* the 26-byte header; such a leaf ends the run with the no-key ADEPTError.
CE_C4_ShortBufferRaises ==
    platform = "win" =>
        \A k \in 1..Len(keys) : Len(UnpaddedOf(keyOrigin[k])) >= HeaderLen

\* C5 (as claimed): for a non-empty buffer whose last byte k is at most its
\* length, unpad returns the buffer without its last k bytes.
CE_C5_UnpadDropsDeclaredCount ==
    (pc = "unpadded" /\ Len(data) > 0 /\ data[Len(data)] <= Len(data)) =>
        /\ unpadded.kind = "returned"
        /\ unpadded.value = SubSeq(data, 1, Len(data) - data[Len(data)])

\* The walk has ended at a missing index (WalkEnd has acted).
WalkOver ==
    /\ Len(opened) > 0
    /\ ~OpenGroup(plkroot, opened[Len(opened)]).present
    /\ pc \notin { "outer", "inner", "end" }

\* C6: on Windows, when the outer scan has ended with no key accumulated,
\* adeptkeys has raised the ADEPTError 'Could not locate privateLicenseKey'
\* and handed nothing to its caller; it returns only with at least one key.
C6_NoKeyIsAnError ==
    platform = "win" =>
        /\ result = Returned => Len(keys) >= 1
        /\ (WalkOver /\ Len(keys) = 0) =>
              /\ result = Raised("ADEPTError", MsgNoKey)
              /\ pc = "raised" /\ saved = Running /\ written = << >>
        /\ (WalkOver /\ Len(keys) >= 1) => result = Returned

\* C6 witness: the scan ended over a tree with a credentials group and no key.
C6_Witness ==
    /\ platform = "win"
    /\ WalkOver
    /\ Len(names) >= 1
    /\ Len(keys) = 0
    /\ result = Raised("ADEPTError", MsgNoKey)

\* C7 (as claimed): on the Mac, a document without a privateLicenseKey node
\* ends adeptkeys with the no-key ADEPTError.
CE_C7_MacNoKeyIsDomainError ==
    (platform = "osx" /\ doc.present /\ IsNone(doc.plk) /\ pc = "raised") =>
        result = Raised("ADEPTError", MsgNoKey)

\* The name the Windows walk gives a group: lines 315-344 as a fold.
RECURSIVE ScanName(_, _, _)
ScanName(group, k, acc) ==
    IF k < InnerCap /\ OpenLeaf(group, k).present
    THEN ScanName(group, k + 1, NameAfterLeaf(acc, OpenLeaf(group, k)))
    ELSE FinalName(acc)
WalkerName(group) == ScanName(group, 0, << >>)

\* The registry group with the fields of a document: a user leaf when the
\* user node is there, a username leaf with the node's method attribute and
\* its text as value when the username node is there, and the key.
GroupOfDoc(d) ==
    Group("credentials",
          (IF IsNone(d.user) THEN << >> ELSE << Leaf("user", d.user, None) >>)
          \o (IF d.hasUsername
              THEN << Leaf("username", Some(d.text), d.method) >>
              ELSE << >>)
          \o << Leaf("privateLicenseKey", d.plk, None) >>)

\* C8 (as claimed): the name the Mac code builds for a document is the name
\* the Windows walk builds for a group with the same fields.
CE_C8_MacNameMirrorsWalk ==
    (platform = "osx" /\ result = Returned) => names[1] = WalkerName(GroupOfDoc(doc))

\* C9 (as claimed): when the registry gave no username and the OS reports
\* none either, the step after the failed query leaves the username field
\* empty and goes on to pack the entropy.
CE_C9_NoIdentifierGoesOn ==
    [][(pc = "GetUserName" /\ IsNone(osUser)) => (pc' = "pack" /\ user' = Some(<< >>))]_vars

\* C10 (as claimed): given a directory and n >= 1 keys, getkey ends having
\* written the n keys in order, each to a path that did not exist before, and
\* returns True; given a file path it writes the first key to that path.
CE_C10_EveryKeySaved ==
    (pc = "done" /\ Len(keys) >= 1) =>
        /\ saved = Raised("True", "")
        /\ outIsDir =>
              /\ Len(written) = Len(keys)
              /\ \A k \in 1..Len(written) : written[k].key = keys[k]
              /\ \A k, m \in 1..Len(written) :
                    k < m => written[k].path.count < written[m].path.count
        /\ ~outIsDir => written = << [ path |-> OutPath, key |-> keys[1] ] >>

\* The group the walk has just finalized: its name is the last of names and
\* uuid_name still holds what its leaves accumulated.
JustFinalized ==
    /\ platform = "win"
    /\ Len(names) > 0
    /\ nameOrigin[Len(names)] = i
    /\ pc \in { "outer", "end" }

\* The leaves the inner scan of the group at index i has opened.
ScannedLeaves == { OpenLeaf(OpenGroup(plkroot, i), m) : m \in 0..(leafOpens - 1) }

\* A leaf that puts something on the accumulator: a user leaf always does (at
\* least the separator), a username leaf does when it has a method or a value.
LeafAppends(leaf) ==
    \/ leaf.ktype = "user"
    \/ leaf.ktype = "username" /\ (~IsNone(leaf.method) \/ ~IsNone(leaf.value))

\* C11: for the group just finalized, the accumulator is empty exactly when
\* no scanned user or username leaf appended anything, and then the name is
\* 'Unknown'; otherwise the accumulator is the name followed by exactly one
\* separator. A group without user and username leaves is named 'Unknown'.
C11_NameAtFinalize ==
    JustFinalized =>
        LET name == names[Len(names)]
        IN  /\ (uuid_name = << >>) <=> (\A leaf \in ScannedLeaves : ~LeafAppends(leaf))
            /\ uuid_name = << >> => name = Unknown
            /\ uuid_name # << >> => uuid_name = name \o Separator
            /\ (\A leaf \in ScannedLeaves : leaf.ktype \notin { "user", "username" })
                   => name = Unknown

\* One walk names a first group 'Unknown' although it holds a username leaf
\* (one that has neither method nor value) and a second group after what its
\* leaves appended.
C11_Witness ==
    /\ JustFinalized
    /\ Len(names) = 2
    /\ names[1] = Unknown
    /\ \E m \in 0..(InnerCap - 1) :
          OpenLeaf(OpenGroup(plkroot, nameOrigin[1]), m).ktype = "username"
    /\ uuid_name # << >>
    /\ names[2] \o Separator = uuid_name

\* The number of leaves the inner scan of a group opens with success: up to
\* the first missing index, and InnerCap at most.
ScanLength(group) ==
    CHOOSE n \in 0..InnerCap :
        /\ \A m \in 0..(n - 1) : OpenLeaf(group, m).present
        /\ n = InnerCap \/ ~OpenLeaf(group, n).present

\* The walk over the Activation subtree is under way.
WalkRunning == platform = "win" /\ pc \in { "outer", "inner", "end" }

\* How far the walk has come: the outer index first, then the place within
\* the group (inner scan at leaf j, or behind it).
WalkMeasure == i * (InnerCap + 3) + (IF pc = "inner" THEN j + 1 ELSE InnerCap + 2)

\* While the walk runs: the inner scan has opened the leaves 0 .. j - 1 of its
\* group, all present, and never more than InnerCap; it goes on or the
\* finalize can act; after a finalize it has opened the leaves up to the
\* first missing one or the cap, and the outer scan can take its next step;
\* every credentials group the outer scan went past has its name; the outer
\* index stays within the store.
C12_WalkBounds ==
    WalkRunning =>
        /\ leafOpens <= InnerCap
        /\ i <= Len(plkroot)
        /\ pc = "outer" => ENABLED OuterStep
        /\ pc = "end" => ENABLED WalkEnd
        /\ pc = "inner" =>
              /\ j = leafOpens
              /\ \A m \in 0..(j - 1) : OpenLeaf(OpenGroup(plkroot, i), m).present
              /\ InnerContinues \/ ENABLED GroupFinalize
        /\ JustFinalized =>
              /\ leafOpens = ScanLength(OpenGroup(plkroot, i))
              /\ pc = "outer"
        /\ \A g \in 0..(IF pc = "inner" THEN i - 1 ELSE i) :
              (OpenGroup(plkroot, g).present /\ OpenGroup(plkroot, g).ktype = "credentials")
                 => \E k \in 1..Len(nameOrigin) : nameOrigin[k] = g

\* One step of the walk: an inner scan that stops hands over to the outer
\* scan at the same index with the group's name appended; the outer scan
\* opens the next index; the walk moves on in its bounded measure.
C12_WalkStep ==
    /\ (pc = "inner" /\ pc' = "outer") => (Len(names') = Len(names) + 1 /\ i' = i)
    /\ (WalkRunning /\ pc = "outer") => (i' = i + 1 /\ opened' = Append(opened, i + 1))
    /\ (WalkRunning /\ WalkRunning') => WalkMeasure' > WalkMeasure

\* C12: the inner scan opens the leaves 0, 1, 2, ... of its group and stops
\* at the first one whose open fails or after index 15; stopping it leaves
\* the outer scan running, which finalizes the group and goes on at the next
\* index; the walk over a finite store comes to an end (it can always step,
\* and every step raises a measure the size of the store bounds), with at
\* most 16 leaves opened in any group.
C12_InnerScanBoundedWalkEnds == []C12_WalkBounds /\ [][C12_WalkStep]_vars

\* One walk went through a group with a gap among its leaves (the key behind
\* the gap was not read) and then stopped the scan of a group of 17 leaves
\* after 16, with the outer scan still running.
C12_Witness ==
    /\ JustFinalized
    /\ pc = "outer"
    /\ i = 1
    /\ Len(names) = 2
    /\ ScanLength(OpenGroup(plkroot, 0)) < Len(OpenGroup(plkroot, 0).leaves)
    /\ Len(keys) = 1
    /\ leafOpens = InnerCap
    /\ OpenLeaf(OpenGroup(plkroot, 1), InnerCap).present

====
